---- MODULE Spec2Model ----
(***************************************************************************)
(* A model of estereo.py: the WAVE header codec, the per-sample           *)
(* transforms and the four file converters estereo2mono, mono2stereo,     *)
(* codEstereo and decEstereo.                                             *)
(*                                                                         *)
(* Files are sequences of bytes (0..255).  Python integers are unbounded; *)
(* the ones that may exceed 31 bits (the 'I' header fields and the values *)
(* computed from them) are kept as 8 little-endian base-256 digits, which *)
(* holds every value the program computes from fields that fit a header   *)
(* (sample_rate * num_channels * bits_per_sample < 2^64).                 *)
(***************************************************************************)
EXTENDS Integers, Sequences, FiniteSets, TLC

VARIABLES fs, last, wrote

vars == <<fs, last, wrote>>

(***************************************************************************)
(* Bounds of the input space.                                              *)
(***************************************************************************)
Small == 1
MaxFrames == 2
MaxCanal == 4

(***************************************************************************)
(* Byte strings.                                                           *)
(***************************************************************************)
Byte == 0..255

\* Python's s[a:b] for 0 <= a, 0 <= b.
Slice(s, a, b) ==
    IF a >= Len(s) \/ b <= a THEN <<>>
    ELSE SubSeq(s, a + 1, IF b < Len(s) THEN b ELSE Len(s))

\* b''.join(list)
RECURSIVE Join(_)
Join(list) == IF list = <<>> THEN <<>> ELSE Head(list) \o Join(Tail(list))

\* len(range(0, n, step)) for step > 0
RangeLen(n, step) == (n + step - 1) \div step

Pow256 == <<1, 256, 65536, 16777216>>

\* struct '<H' of an integer that fits 16 bits
PackH(x) == <<x % 256, (x \div 256) % 256>>

\* struct '<h': the two's complement bytes of a signed 16-bit integer
Packh(x) == <<x % 256, (x \div 256) % 256>>

\* struct '<H' read back
UnpackH(b) == b[1] + 256 * b[2]

\* struct '<h' read back
Unpackh(b) == LET u == b[1] + 256 * b[2] IN IF u < 32768 THEN u ELSE u - 65536

(***************************************************************************)
(* Wide integers: 8 base-256 digits, least significant first.              *)
(***************************************************************************)
WideLen == 8

WideOfBytes(b) == [i \in 1..WideLen |-> IF i <= Len(b) THEN b[i] ELSE 0]

\* for 0 <= n < 2^31
WideOfInt(n) == [i \in 1..WideLen |-> IF i <= 4 THEN (n \div Pow256[i]) % 256 ELSE 0]

RECURSIVE WideMulFrom(_, _, _, _)
WideMulFrom(d, k, i, carry) ==
    IF i > WideLen THEN <<>>
    ELSE LET t == d[i] * k + carry
         IN <<t % 256>> \o WideMulFrom(d, k, i + 1, t \div 256)

\* d * k for 0 <= k < 2^16
WideMul(d, k) == WideMulFrom(d, k, 1, 0)

RECURSIVE WideAddFrom(_, _, _)
WideAddFrom(d, i, carry) ==
    IF i > WideLen THEN <<>>
    ELSE LET t == d[i] + carry
         IN <<t % 256>> \o WideAddFrom(d, i + 1, t \div 256)

\* d + k for 0 <= k < 2^16
WideAdd(d, k) == WideAddFrom(d, 1, k)

\* d // 8
WideFloorDiv8(d) ==
    [i \in 1..WideLen |->
        (d[i] \div 8) + (IF i < WideLen THEN (d[i + 1] % 8) * 32 ELSE 0)]

\* the value fits n bytes (struct's range check for 'H', n = 2, and 'I', n = 4)
WideFits(d, n) == \A i \in (n + 1)..WideLen : d[i] = 0

\* struct '<I' / '<H' of a wide integer that fits
WidePack(d, n) == SubSeq(d, 1, n)

\* min(d, cap) as an ordinary integer, for 0 <= cap < 2^31
WideMin(d, cap) ==
    IF (\E i \in 5..WideLen : d[i] # 0) \/ d[4] >= 128 THEN cap
    ELSE LET v == d[1] + 256 * d[2] + 65536 * d[3] + 16777216 * d[4]
         IN IF v < cap THEN v ELSE cap

(***************************************************************************)
(* Exceptions, by the text Python reports (accents dropped).               *)
(***************************************************************************)
Ok == "ok"
StructError == "struct.error"
FileNotFoundError == "FileNotFoundError"
OverflowError == "OverflowError: int too big to convert"
ErrRange == "ValueError: range() arg 3 must not be zero"
ErrRiff == "ValueError: Formato RIFF/WAVE no valido"
ErrFmt == "ValueError: Subchunk fmt no valido o no PCM"
ErrData == "ValueError: Subchunk data no encontrado"
ErrCanal == "ValueError: Canal invalido"
ErrNoEstereo == "ValueError: El archivo no es estereo"
ErrNoMono == "ValueError: Ambos ficheros deben ser monofonicos"
ErrFrec == "ValueError: Las frecuencias de muestreo no coinciden"
ErrBits == "ValueError: Los bits por muestra no coinciden"
ErrLong == "ValueError: Las longitudes de los datos no coinciden"
ErrCod == "ValueError: El fichero debe ser estereo de 16 bits"
ErrDec == "ValueError: El fichero debe ser monofonico de 32 bits"

(***************************************************************************)
(* The WAVE header.                                                        *)
(***************************************************************************)
RIFF == <<82, 73, 70, 70>>
WAVE == <<87, 65, 86, 69>>
FMT == <<102, 109, 116, 32>>
DATA == <<100, 97, 116, 97>>
FmtChunkSize == 16
HeaderLen == 12 + 8 + 16 + 8

NoCab ==
    [num_channels |-> 0, sample_rate |-> <<0, 0, 0, 0>>, byte_rate |-> <<0, 0, 0, 0>>,
     block_align |-> 0, bits_per_sample |-> 0, data_size |-> <<0, 0, 0, 0>>]

\* leer_cabecera_wave on a stream positioned at byte 0 of data.  pos is the
\* stream position when the function returns or raises.  The 'I' fields of
\* the dictionary are kept as their four little-endian bytes.
leer_cabecera_wave(data) ==
    LET n == Len(data)
        Fail(e, p) == [err |-> e, pos |-> p, cab |-> NoCab]
    IN  IF n < 12 THEN Fail(StructError, n)
        ELSE IF Slice(data, 0, 4) # RIFF \/ Slice(data, 8, 12) # WAVE
             THEN Fail(ErrRiff, 12)
        ELSE IF n < 20 THEN Fail(StructError, n)
        ELSE IF Slice(data, 12, 16) # FMT
                \/ Slice(data, 16, 20) # WidePack(WideOfInt(FmtChunkSize), 4)
             THEN Fail(ErrFmt, 20)
        ELSE IF n < 36 THEN Fail(StructError, n)
        ELSE IF n < 44 THEN Fail(StructError, n)
        ELSE IF Slice(data, 36, 40) # DATA THEN Fail(ErrData, 44)
        ELSE [err |-> Ok, pos |-> 44,
              cab |-> [num_channels |-> UnpackH(Slice(data, 22, 24)),
                       sample_rate |-> Slice(data, 24, 28),
                       byte_rate |-> Slice(data, 28, 32),
                       block_align |-> UnpackH(Slice(data, 32, 34)),
                       bits_per_sample |-> UnpackH(Slice(data, 34, 36)),
                       data_size |-> Slice(data, 40, 44)]]

\* f.read(cab['data_size']) after the header
LeerDatos(data, cab) ==
    Slice(data, HeaderLen,
          HeaderLen + WideMin(WideOfBytes(cab.data_size), Len(data) - HeaderLen))

\* a byte rate that leaves out the channel count
ByteRate_SinCanales(num_channels, sample_rate, bits_per_sample) ==
    WideFloorDiv8(WideMul(sample_rate, bits_per_sample))

\* byte_rate = sample_rate * num_channels * bits_per_sample // 8
ByteRate(num_channels, sample_rate, bits_per_sample) ==
    WideFloorDiv8(WideMul(WideMul(sample_rate, num_channels), bits_per_sample))

\* block_align = num_channels * bits_per_sample // 8
BlockAlign(num_channels, bits_per_sample) ==
    WideFloorDiv8(WideMul(WideOfInt(num_channels), bits_per_sample))

\* total_size = 4 + (8 + fmt_chunk_size) + (8 + data_size)
TotalSize(data_size) == WideAdd(data_size, 4 + (8 + FmtChunkSize) + 8)

\* escribir_cabecera_wave on a stream just opened for writing: the bytes the
\* stream holds when the function returns (ok) or raises struct.error.
\* num_channels and bits_per_sample are integers in 0..65535; sample_rate
\* and data_size are wide integers.
escribir_cabecera_wave(num_channels, sample_rate, bits_per_sample, data_size) ==
    LET byte_rate == ByteRate(num_channels, sample_rate, bits_per_sample)
        block_align == BlockAlign(num_channels, bits_per_sample)
        total_size == TotalSize(data_size)
        w1 == RIFF \o WidePack(total_size, 4) \o WAVE
        w2 == FMT \o WidePack(WideOfInt(FmtChunkSize), 4)
        w3 == PackH(1) \o PackH(num_channels) \o WidePack(sample_rate, 4)
              \o WidePack(byte_rate, 4) \o WidePack(block_align, 2)
              \o PackH(bits_per_sample)
        w4 == DATA \o WidePack(data_size, 4)
    IN  IF ~WideFits(total_size, 4) THEN [ok |-> FALSE, bytes |-> <<>>]
        ELSE IF ~(WideFits(sample_rate, 4) /\ WideFits(byte_rate, 4)
                  /\ WideFits(block_align, 2))
             THEN [ok |-> FALSE, bytes |-> w1 \o w2]
        ELSE IF ~WideFits(data_size, 4) THEN [ok |-> FALSE, bytes |-> w1 \o w2 \o w3]
        ELSE [ok |-> TRUE, bytes |-> w1 \o w2 \o w3 \o w4]

(***************************************************************************)
(* Sample transforms.                                                      *)
(***************************************************************************)
\* int.from_bytes(b, 'little', signed=True) for at most four bytes
FromBytesSigned(b) ==
    LET n == Len(b)
        low == IF n >= 2 THEN b[1] ELSE 0
        mid1 == IF n >= 3 THEN 256 * b[2] ELSE 0
        mid2 == IF n >= 4 THEN 65536 * b[3] ELSE 0
        top == IF n = 0 THEN 0 ELSE IF b[n] >= 128 THEN b[n] - 256 ELSE b[n]
    IN  IF n = 0 THEN 0 ELSE top * Pow256[n] + (mid2 + mid1 + low)

\* x.to_bytes(tam, 'little', signed=True) succeeds
FitsSigned(x, tam) ==
    IF tam = 0 THEN x = 0
    ELSE IF tam >= 4 THEN TRUE
    ELSE -(Pow256[tam + 1] \div 2) <= x /\ x <= (Pow256[tam + 1] \div 2) - 1

\* x.to_bytes(tam, 'little', signed=True) for tam <= 4
ToBytesSigned(x, tam) == [i \in 1..tam |-> (x \div Pow256[i]) % 256]

\* a half-sum rounded toward zero
FloorHalfSum_Trunc(L, R) ==
    LET f == (L \div 2) + (R \div 2) + (((L % 2) + (R % 2)) \div 2)
    IN  IF f < 0 /\ (L % 2) + (R % 2) = 1 THEN f + 1 ELSE f

\* (L + R) // 2.  The sum of two 32-bit samples needs 33 bits, so it is
\* formed from the halves of L and R; the value is that of Python's
\* unbounded floor division.
FloorHalfSum(L, R) == (L \div 2) + (R \div 2) + (((L % 2) + (R % 2)) \div 2)

\* (L - R) // 2, formed the same way
FloorHalfDiff(L, R) == (L \div 2) - (R \div 2) + (((L % 2) - (R % 2)) \div 2)

\* procesar_muestra(m, tam, canal): the bytes returned, or the exception
procesar_muestra(m, tam, canal) ==
    LET L == FromBytesSigned(Slice(m, 0, tam))
        R == FromBytesSigned(Slice(m, tam, tam * 2))
        res == IF canal = 0 THEN L
               ELSE IF canal = 1 THEN R
               ELSE IF canal = 2 THEN FloorHalfSum(L, R)
               ELSE FloorHalfDiff(L, R)
    IN  IF canal \notin {0, 1, 2, 3} THEN [err |-> ErrCanal, bytes |-> <<>>]
        ELSE IF ~FitsSigned(res, tam) THEN [err |-> OverflowError, bytes |-> <<>>]
        ELSE [err |-> Ok, bytes |-> ToBytesSigned(res, tam)]

\* the low half taken unsigned
int16_NoSignExtend(x) == x

\* int16
int16(x) == IF x < 32768 THEN x ELSE x - 65536

\* a 16-bit wrap in place of the clamp
saturar16_Wrap(x) == ((x + 32768) % 65536) - 32768

\* saturar16
saturar16(x) ==
    LET lo == IF 32767 < x THEN 32767 ELSE x
    IN  IF -32768 > lo THEN -32768 ELSE lo

\* One element of codEstereo's list `codificadas`: struct.pack('<I', ...) of
\* (((L + R) // 2 & 0xFFFF) << 16) | ((L - R) // 2 & 0xFFFF).  The 32-bit
\* value is written low half first.
pack32(L, R) ==
    LET hi == ((L + R) \div 2) % 65536
        lo == ((L - R) \div 2) % 65536
    IN  PackH(lo) \o PackH(hi)

\* One element of decEstereo's list `reconstruidas` for the coded sample m
\* whose four little-endian bytes are b: m >> 16 is the high half, m & 0xFFFF
\* the low half.  struct.pack('<hh', ...) raises when a value is out of range.
unpack32(b) ==
    LET hi == UnpackH(Slice(b, 2, 4))
        lo == UnpackH(Slice(b, 0, 2))
        izq == saturar16(hi + int16(lo))
        der == saturar16(hi - int16(lo))
    IN  IF izq \in -32768..32767 /\ der \in -32768..32767
        THEN [err |-> Ok, bytes |-> Packh(izq) \o Packh(der)]
        ELSE [err |-> StructError, bytes |-> <<>>]

(***************************************************************************)
(* The converters, as functions of the input file(s): the exception raised *)
(* (or ok), the read position of each input stream at that point, whether  *)
(* the output file was opened (created or truncated) and the bytes it then *)
(* holds.                                                                  *)
(***************************************************************************)
Outcome(res, nread, nread2, opened, bytes) ==
    [res |-> res, nread |-> nread, nread2 |-> nread2, opened |-> opened, bytes |-> bytes]

\* the first exception of a list of per-frame results, or ok
RECURSIVE FirstErr(_)
FirstErr(list) ==
    IF list = <<>> THEN Ok
    ELSE IF Head(list).err # Ok THEN Head(list).err
    ELSE FirstErr(Tail(list))

\* with open(fic, 'wb') as f_out: escribir_cabecera_wave(...); f_out.write(datos)
Escribir(nread, nread2, num_channels, sample_rate, bits_per_sample, datos) ==
    LET h == escribir_cabecera_wave(num_channels, WideOfBytes(sample_rate),
                                    bits_per_sample, WideOfInt(Len(datos)))
    IN  IF h.ok THEN Outcome(Ok, nread, nread2, TRUE, h.bytes \o datos)
        ELSE Outcome(StructError, nread, nread2, TRUE, h.bytes)

\* cab['num_channels'] != 2
NoEstereo(cab) == cab.num_channels # 2

\* the two conditions joined by and
NoEstereo16_And(cab) == cab.num_channels # 2 /\ cab.bits_per_sample # 16

\* cab['num_channels'] != 2 or cab['bits_per_sample'] != 16
NoEstereo16(cab) == cab.num_channels # 2 \/ cab.bits_per_sample # 16

\* cab['num_channels'] != 1 or cab['bits_per_sample'] != 32
NoMono32(cab) == cab.num_channels # 1 \/ cab.bits_per_sample # 32

\* the checks with bits_per_sample compared before sample_rate
comprobar_mono_BitsPrimero(cab_izq, cab_der) ==
    IF cab_izq.num_channels # 1 \/ cab_der.num_channels # 1 THEN ErrNoMono
    ELSE IF cab_izq.bits_per_sample # cab_der.bits_per_sample THEN ErrBits
    ELSE IF cab_izq.sample_rate # cab_der.sample_rate THEN ErrFrec
    ELSE IF cab_izq.data_size # cab_der.data_size THEN ErrLong
    ELSE Ok

\* the header checks of mono2stereo, in the order the code makes them: the
\* exception raised, or ok
comprobar_mono(cab_izq, cab_der) ==
    IF cab_izq.num_channels # 1 \/ cab_der.num_channels # 1 THEN ErrNoMono
    ELSE IF cab_izq.sample_rate # cab_der.sample_rate THEN ErrFrec
    ELSE IF cab_izq.bits_per_sample # cab_der.bits_per_sample THEN ErrBits
    ELSE IF cab_izq.data_size # cab_der.data_size THEN ErrLong
    ELSE Ok

estereo2mono(fic, canal) ==
    IF ~fic.exists THEN Outcome(FileNotFoundError, 0, 0, FALSE, <<>>)
    ELSE
    LET h == leer_cabecera_wave(fic.data)
        cab == h.cab
        datos == LeerDatos(fic.data, cab)
        nread == HeaderLen + Len(datos)
        tam == cab.bits_per_sample \div 8
        muestras == [k \in 1..RangeLen(Len(datos), 2 * tam) |->
                        Slice(datos, (k - 1) * 2 * tam, (k - 1) * 2 * tam + 2 * tam)]
        mono == [k \in 1..Len(muestras) |-> procesar_muestra(muestras[k], tam, canal)]
        datos_mono == Join([k \in 1..Len(mono) |-> mono[k].bytes])
    IN  IF h.err # Ok THEN Outcome(h.err, h.pos, 0, FALSE, <<>>)
        ELSE IF NoEstereo(cab) THEN Outcome(ErrNoEstereo, h.pos, 0, FALSE, <<>>)
        ELSE IF tam = 0 THEN Outcome(ErrRange, nread, 0, FALSE, <<>>)
        ELSE IF FirstErr(mono) # Ok THEN Outcome(FirstErr(mono), nread, 0, FALSE, <<>>)
        ELSE Escribir(nread, 0, 1, cab.sample_rate, cab.bits_per_sample, datos_mono)

\* the frames interleaved right channel first
Entrelazar_DerPrimero(datos_izq, datos_der, tam) ==
    Join([k \in 1..RangeLen(Len(datos_izq), tam) |->
            Slice(datos_der, (k - 1) * tam, (k - 1) * tam + tam)
            \o Slice(datos_izq, (k - 1) * tam, (k - 1) * tam + tam)])

\* datos_stereo: b''.join of datos_izq[i:i+tam] + datos_der[i:i+tam]
Entrelazar(datos_izq, datos_der, tam) ==
    Join([k \in 1..RangeLen(Len(datos_izq), tam) |->
            Slice(datos_izq, (k - 1) * tam, (k - 1) * tam + tam)
            \o Slice(datos_der, (k - 1) * tam, (k - 1) * tam + tam)])

mono2stereo(ficIzq, ficDer) ==
    IF ~ficIzq.exists \/ ~ficDer.exists THEN Outcome(FileNotFoundError, 0, 0, FALSE, <<>>)
    ELSE
    LET hi == leer_cabecera_wave(ficIzq.data)
        hd == leer_cabecera_wave(ficDer.data)
        cab_izq == hi.cab
        cab_der == hd.cab
        datos_izq == LeerDatos(ficIzq.data, cab_izq)
        datos_der == LeerDatos(ficDer.data, cab_der)
        ni == HeaderLen + Len(datos_izq)
        nd == HeaderLen + Len(datos_der)
        tam == cab_izq.bits_per_sample \div 8
        datos_stereo == Entrelazar(datos_izq, datos_der, tam)
    IN  IF hi.err # Ok THEN Outcome(hi.err, hi.pos, 0, FALSE, <<>>)
        ELSE IF hd.err # Ok THEN Outcome(hd.err, hi.pos, hd.pos, FALSE, <<>>)
        ELSE IF comprobar_mono(cab_izq, cab_der) # Ok
             THEN Outcome(comprobar_mono(cab_izq, cab_der), hi.pos, hd.pos, FALSE, <<>>)
        ELSE IF tam = 0 THEN Outcome(ErrRange, ni, nd, FALSE, <<>>)
        ELSE Escribir(ni, nd, 2, cab_izq.sample_rate, cab_izq.bits_per_sample,
                      datos_stereo)

codEstereo(fic) ==
    IF ~fic.exists THEN Outcome(FileNotFoundError, 0, 0, FALSE, <<>>)
    ELSE
    LET h == leer_cabecera_wave(fic.data)
        cab == h.cab
        datos == LeerDatos(fic.data, cab)
        nread == HeaderLen + Len(datos)
        datos_cod ==
            Join([k \in 1..(Len(datos) \div 4) |->
                    pack32(Unpackh(Slice(datos, 4 * k - 4, 4 * k - 2)),
                           Unpackh(Slice(datos, 4 * k - 2, 4 * k)))])
    IN  IF h.err # Ok THEN Outcome(h.err, h.pos, 0, FALSE, <<>>)
        ELSE IF NoEstereo16(cab)
             THEN Outcome(ErrCod, h.pos, 0, FALSE, <<>>)
        ELSE IF Len(datos) % 4 # 0 THEN Outcome(StructError, nread, 0, FALSE, <<>>)
        ELSE Escribir(nread, 0, 1, cab.sample_rate, 32, datos_cod)

decEstereo(fic) ==
    IF ~fic.exists THEN Outcome(FileNotFoundError, 0, 0, FALSE, <<>>)
    ELSE
    LET h == leer_cabecera_wave(fic.data)
        cab == h.cab
        datos == LeerDatos(fic.data, cab)
        nread == HeaderLen + Len(datos)
        reconstruidas ==
            [k \in 1..(Len(datos) \div 4) |-> unpack32(Slice(datos, 4 * k - 4, 4 * k))]
        datos_estereo == Join([k \in 1..Len(reconstruidas) |-> reconstruidas[k].bytes])
    IN  IF h.err # Ok THEN Outcome(h.err, h.pos, 0, FALSE, <<>>)
        ELSE IF NoMono32(cab)
             THEN Outcome(ErrDec, h.pos, 0, FALSE, <<>>)
        ELSE IF Len(datos) % 4 # 0 THEN Outcome(StructError, nread, 0, FALSE, <<>>)
        ELSE IF FirstErr(reconstruidas) # Ok
             THEN Outcome(FirstErr(reconstruidas), nread, 0, FALSE, <<>>)
        ELSE Escribir(nread, 0, 2, cab.sample_rate, 16, datos_estereo)

(***************************************************************************)
(* Input files.                                                            *)
(***************************************************************************)
Files == {"A", "B", "izq", "der", "mono", "cod", "rec", "hdr"}

NoFile == [exists |-> FALSE, data |-> <<>>]
File(bytes) == [exists |-> TRUE, data |-> bytes]

Rate8000 == WidePack(WideOfInt(8000), 4)
Rate44100 == WidePack(WideOfInt(44100), 4)
RateHuge == <<0, 0, 0, 64>>
RateMax == <<255, 255, 255, 255>>

\* 44 header bytes with the given fields, followed by the payload
RawWave(riff, wave, fmt, fmtsize, nch, sr, br, ba, bits, dataid, ds, payload) ==
    riff \o <<0, 0, 0, 0>> \o wave \o fmt \o WidePack(WideOfInt(fmtsize), 4)
    \o PackH(1) \o PackH(nch) \o sr \o br \o PackH(ba) \o PackH(bits)
    \o dataid \o ds \o payload

\* a header whose derived fields are filled in as a WAVE writer would (low bytes kept)
Wave(nch, sr, bits, payload) ==
    RawWave(RIFF, WAVE, FMT, 16, nch, sr,
            WidePack(WideFloorDiv8(WideMul(WideMul(WideOfBytes(sr), nch), bits)), 4),
            (nch * bits) \div 8, bits, DATA, WidePack(WideOfInt(Len(payload)), 4),
            payload)

MinInt(w) == (-128) * Pow256[w]
MaxInt(w) == 127 * Pow256[w] + (Pow256[w] - 1)

\* the sample values of width w bytes the inputs are drawn from
SampleVals(w) ==
    (-Small..Small) \cup {MinInt(w), MinInt(w) + 1, MaxInt(w) - 1, MaxInt(w)}

\* n stereo frames of width w: (l, r), (r, l), (l, r), ...
StereoPayload(w, l, r, n) ==
    Join([k \in 1..n |->
            IF k % 2 = 1 THEN ToBytesSigned(l, w) \o ToBytesSigned(r, w)
            ELSE ToBytesSigned(r, w) \o ToBytesSigned(l, w)])

Widths == {1, 2, 4}

\* stereo files of every width with up to MaxFrames frames of small samples
StereoThin ==
    {Wave(2, Rate8000, 8 * w, StereoPayload(w, l, r, n)) :
        w \in Widths, l \in {0, 1}, r \in {-1, 0}, n \in 0..MaxFrames}

\* one-frame stereo files of width w over all the sample values of that width
StereoWide(w) ==
    {Wave(2, Rate8000, 8 * w, StereoPayload(w, l, r, 1)) :
        l \in SampleVals(w), r \in SampleVals(w)}

\* the 16-bit halves of the coded samples the inputs are drawn from
Halves == (0..Small) \cup {32767, 32768} \cup ((65535 - Small)..65535)

\* n coded samples: (hi, lo), (lo, hi), ...
CodedPayload(hi, lo, n) ==
    Join([k \in 1..n |->
            IF k % 2 = 1 THEN PackH(lo) \o PackH(hi) ELSE PackH(hi) \o PackH(lo)])

\* coded files with up to MaxFrames samples
CodedThin ==
    {Wave(1, Rate8000, 32, CodedPayload(hi, lo, n)) :
        hi \in {0, 1, 65535}, lo \in {0, 1, 65535}, n \in 0..MaxFrames}

\* one-sample coded files over all the halves
CodedWide ==
    {Wave(1, Rate8000, 32, CodedPayload(hi, lo, 1)) : hi \in Halves, lo \in Halves}

MonoInputs(bytes) ==
    {Wave(1, sr, bits, Slice(bytes, 0, n)) :
        sr \in {Rate8000, RateHuge}, bits \in {8, 16}, n \in {2, 4}}

DefaultMono == Wave(1, Rate8000, 16, <<5, 6, 7, 8>>)

HeaderVariants ==
    {Wave(nch, sr, bits, Slice(<<1, 0, 255, 255, 3>>, 0, n)) :
        nch \in {1, 2, 3}, sr \in {Rate8000, RateHuge}, bits \in {4, 8, 16, 32},
        n \in {0, 4, 5}}

\* files whose header does not parse, or whose data_size is not the payload length
Malformed ==
    LET good == Wave(2, Rate8000, 16, <<1, 0, 2, 0>>)
        P == <<1, 0, 2, 0>>
        BR == WidePack(WideOfInt(32000), 4)
        Raw(riff, wave, fmt, fmtsize, dataid, ds) ==
            RawWave(riff, wave, fmt, fmtsize, 2, Rate8000, BR, 4, 16, dataid, ds, P)
    IN  {Slice(good, 0, n) : n \in {0, 10, 16, 30, 40, 44, 46}}
        \cup {Raw(DATA, WAVE, FMT, 16, DATA, <<4, 0, 0, 0>>),
              Raw(RIFF, RIFF, FMT, 16, DATA, <<4, 0, 0, 0>>),
              Raw(RIFF, WAVE, DATA, 16, DATA, <<4, 0, 0, 0>>),
              Raw(RIFF, WAVE, FMT, 18, DATA, <<4, 0, 0, 0>>),
              Raw(RIFF, WAVE, FMT, 16, FMT, <<4, 0, 0, 0>>),
              Raw(RIFF, WAVE, FMT, 16, DATA, <<2, 0, 0, 0>>),
              Raw(RIFF, WAVE, FMT, 16, DATA, <<8, 0, 0, 0>>),
              Raw(RIFF, WAVE, FMT, 16, DATA, <<255, 255, 255, 255>>)}

NoCall ==
    [op |-> "none", src |-> "", src2 |-> "", dst |-> "", canal |-> 0, res |-> Ok,
     nread |-> 0, nread2 |-> 0, pre |-> NoFile, cab |-> NoCab]

NoArgs ==
    [num_channels |-> 0, sample_rate |-> WideOfInt(0), bits_per_sample |-> 0,
     data_size |-> WideOfInt(0), given |-> FALSE]

InitFs(a, b) == [f \in Files |-> IF f = "A" THEN a ELSE IF f = "B" THEN b ELSE NoFile]

Init ==
    /\ \/ \E a \in StereoThin \cup CodedThin \cup HeaderVariants \cup Malformed :
            fs = InitFs(File(a), File(DefaultMono))
       \/ \E a \in MonoInputs(<<1, 2, 3, 4>>), b \in MonoInputs(<<5, 6, 7, 8>>) :
            fs = InitFs(File(a), File(b))
    /\ last = NoCall
    /\ wrote = NoArgs

\* inputs for the per-sample arithmetic of estereo2mono
InitSamples ==
    /\ \E a \in StereoThin \cup UNION {StereoWide(w) : w \in Widths} :
            fs = InitFs(File(a), File(DefaultMono))
    /\ last = NoCall
    /\ wrote = NoArgs

\* inputs for the coder and the decoder
InitCod ==
    /\ \E a \in StereoThin \cup StereoWide(2) \cup CodedThin \cup CodedWide :
            fs = InitFs(File(a), File(DefaultMono))
    /\ last = NoCall
    /\ wrote = NoArgs

(***************************************************************************)
(* The converter calls.                                                    *)
(***************************************************************************)
\* the file system after a call with outcome r that writes to dst
Written(dst, r) == IF r.opened THEN [fs EXCEPT ![dst] = File(r.bytes)] ELSE fs

\* the record of a call with outcome r
Called(op, src, src2, dst, canal, r) ==
    [op |-> op, src |-> src, src2 |-> src2, dst |-> dst, canal |-> canal,
     res |-> r.res, nread |-> r.nread, nread2 |-> r.nread2,
     pre |-> fs[dst], cab |-> NoCab]

\* the output file each mode of estereo2mono is written to
DstOfCanal(canal) == IF canal = 0 THEN "izq" ELSE IF canal = 1 THEN "der" ELSE "mono"

Estereo2mono ==
    \E canal \in 0..MaxCanal :
        LET r == estereo2mono(fs["A"], canal)
        IN  /\ fs' = Written(DstOfCanal(canal), r)
            /\ last' = Called("estereo2mono", "A", "", DstOfCanal(canal), canal, r)
            /\ UNCHANGED wrote

Mono2stereo ==
    \E p \in {<<"izq", "der">>, <<"A", "B">>} :
        LET r == mono2stereo(fs[p[1]], fs[p[2]])
        IN  /\ fs' = Written("rec", r)
            /\ last' = Called("mono2stereo", p[1], p[2], "rec", 0, r)
            /\ UNCHANGED wrote

CodEstereo ==
    LET r == codEstereo(fs["A"])
    IN  /\ fs' = Written("cod", r)
        /\ last' = Called("codEstereo", "A", "", "cod", 0, r)
        /\ UNCHANGED wrote

DecEstereo ==
    \E src \in {"A", "cod"} :
        LET r == decEstereo(fs[src])
        IN  /\ fs' = Written("rec", r)
            /\ last' = Called("decEstereo", src, "", "rec", 0, r)
            /\ UNCHANGED wrote

Next == Estereo2mono \/ Mono2stereo \/ CodEstereo \/ DecEstereo

Spec == Init /\ [][Next]_vars

NextSamples == Estereo2mono

SpecSamples == InitSamples /\ [][NextSamples]_vars

NextCod == CodEstereo \/ DecEstereo

SpecCod == InitCod /\ [][NextCod]_vars

(***************************************************************************)
(* The header codec on its own: a caller writes a header to the stream     *)
(* "hdr" and reads a header back from it.                                  *)
(***************************************************************************)
EscribirCabecera ==
    \E num_channels \in {1, 2, 65535},
       sample_rate \in {Rate8000, Rate44100, RateHuge, RateMax},
       bits_per_sample \in {8, 12, 16, 32, 65535},
       data_size \in {<<4, 0, 0, 0>>, <<219, 255, 255, 255>>, <<255, 255, 255, 255>>} :
        LET h == escribir_cabecera_wave(num_channels, WideOfBytes(sample_rate),
                                        bits_per_sample, WideOfBytes(data_size))
        IN  /\ fs' = [fs EXCEPT !["hdr"] = File(h.bytes)]
            /\ wrote' = [num_channels |-> num_channels,
                         sample_rate |-> WideOfBytes(sample_rate),
                         bits_per_sample |-> bits_per_sample,
                         data_size |-> WideOfBytes(data_size), given |-> TRUE]
            /\ last' = [NoCall EXCEPT !.op = "escribir_cabecera_wave", !.dst = "hdr",
                                      !.res = IF h.ok THEN Ok ELSE StructError]

LeerCabecera ==
    /\ fs["hdr"].exists
    /\ LET h == leer_cabecera_wave(fs["hdr"].data)
       IN  last' = [NoCall EXCEPT !.op = "leer_cabecera_wave", !.src = "hdr",
                                  !.res = h.err, !.nread = h.pos, !.cab = h.cab]
    /\ UNCHANGED <<fs, wrote>>

InitHeader ==
    /\ fs = [f \in Files |-> NoFile]
    /\ last = NoCall
    /\ wrote = NoArgs

NextHeader == EscribirCabecera \/ LeerCabecera

SpecHeader == InitHeader /\ [][NextHeader]_vars

(***************************************************************************)
(* Reading a file's bytes directly, for the properties below.              *)
(***************************************************************************)
Data(f) == fs[f].data

\* the 44 header bytes are there and carry the four markers and fmt size 16
Parses(d) ==
    /\ Len(d) >= 44
    /\ SubSeq(d, 1, 4) = RIFF /\ SubSeq(d, 9, 12) = WAVE
    /\ SubSeq(d, 13, 16) = FMT /\ SubSeq(d, 17, 20) = <<16, 0, 0, 0>>
    /\ SubSeq(d, 37, 40) = DATA

ChannelsOf(d) == d[23] + 256 * d[24]
RateOf(d) == SubSeq(d, 25, 28)
BitsOf(d) == d[35] + 256 * d[36]
DataSizeOf(d) == SubSeq(d, 41, 44)
PayloadOf(d) == SubSeq(d, 45, Len(d))

\* d is a complete file: a header that parses, then exactly data_size bytes
Complete(d) == Parses(d) /\ DataSizeOf(d) = WidePack(WideOfInt(Len(d) - 44), 4)

\* the header of d is consistent with its contents: d is complete, and both
\* its byte rate sample_rate * channel_count * bits_per_sample / 8 and its
\* total size 36 + data_size fit their 32-bit fields.  (A converter writes a
\* header with this byte rate, and codEstereo, decEstereo and mono2stereo
\* write one with this data_size; files of 2^32 - 36 bytes of payload or more
\* are beyond the sizes explored here, the writer's behaviour on such a
\* data_size is explored on its own in SpecHeader.)
Consistent(d) ==
    /\ Complete(d)
    /\ WideFits(WideFloorDiv8(WideMul(WideMul(WideOfBytes(RateOf(d)), ChannelsOf(d)),
                                      BitsOf(d))), 4)
    /\ WideFits(WideAdd(WideOfBytes(DataSizeOf(d)), 36), 4)

\* a stereo file with a whole number of frames of at least one byte per channel
StereoFrames(d) ==
    /\ Parses(d) /\ ChannelsOf(d) = 2 /\ BitsOf(d) >= 8
    /\ Len(PayloadOf(d)) % (2 * (BitsOf(d) \div 8)) = 0

ValidStereo(d) == Consistent(d) /\ StereoFrames(d)

\* the k-th 16-bit word of payload p, unsigned and signed
Word(p, k) == p[2 * k - 1] + 256 * p[2 * k]
SWord(p, k) == IF Word(p, k) < 32768 THEN Word(p, k) ELSE Word(p, k) - 65536

InRange16(x) == -32768 <= x /\ x <= 32767

(***************************************************************************)
(* Coder and decoder (SpecCod).  In a state whose last call is decEstereo  *)
(* on "cod", "cod" holds what codEstereo wrote from "A" and "rec" what     *)
(* decEstereo then wrote from "cod".                                       *)
(***************************************************************************)
\* decoding the coded payload p clamps nothing: for every coded sample the
\* sums mid + side and mid - side are 16-bit values already
NoSaturation(p) ==
    \A k \in 1..(Len(p) \div 4) :
        /\ InRange16(Word(p, 2 * k) + SWord(p, 2 * k - 1))
        /\ InRange16(Word(p, 2 * k) - SWord(p, 2 * k - 1))

RoundTripCase ==
    /\ last.op = "decEstereo" /\ last.src = "cod" /\ fs["cod"].exists
    /\ ValidStereo(Data("A")) /\ BitsOf(Data("A")) = 16
    /\ Complete(Data("cod"))

C1_Pre ==
    /\ RoundTripCase
    /\ \A k \in 1..(Len(PayloadOf(Data("A"))) \div 2) :
            SWord(PayloadOf(Data("A")), k) \in -32767..32767
    /\ NoSaturation(PayloadOf(Data("cod")))

C1_Exact ==
    /\ last.res = Ok
    /\ Complete(Data("rec"))
    /\ PayloadOf(Data("rec")) = PayloadOf(Data("A"))

\* C1 as stated: a valid 16-bit stereo input with samples within +-32767 whose
\* decoding saturates nothing comes back from codEstereo then decEstereo with
\* every frame equal to the original.
C1_Original == C1_Pre => C1_Exact

C1_EvenSums ==
    \A k \in 1..(Len(PayloadOf(Data("A"))) \div 4) :
        (SWord(PayloadOf(Data("A")), 2 * k - 1) + SWord(PayloadOf(Data("A")), 2 * k)) % 2 = 0

\* C1 (amended): the same round trip is exact when, in addition, left + right
\* is even in every frame.
C1_RoundTripEven == (C1_Pre /\ C1_EvenSums) => C1_Exact

\* a two-frame input with different frames went through the round trip
C1_Witness ==
    /\ C1_Pre /\ C1_EvenSums /\ last.res = Ok
    /\ Len(PayloadOf(Data("A"))) >= 8
    /\ SubSeq(PayloadOf(Data("A")), 1, 4) # SubSeq(PayloadOf(Data("A")), 5, 8)

\* a coded mono file: 32-bit samples, consistent header
ValidCoded(d) ==
    /\ Consistent(d) /\ ChannelsOf(d) = 1 /\ BitsOf(d) = 32
    /\ Len(PayloadOf(d)) % 4 = 0

Clamp16(x) == IF x > 32767 THEN 32767 ELSE IF x < -32768 THEN -32768 ELSE x

DecodeCase ==
    /\ last.op = "decEstereo" /\ fs[last.src].exists /\ ValidCoded(Data(last.src))

\* C8: decEstereo turns every coded sample c into left = mid + side and
\* right = mid - side clamped into [-32768, 32767], with mid = c >> 16 taken
\* unsigned and side the sign-extended low half; a sum above 32767 comes out
\* as 32767.
C8_Saturation ==
    DecodeCase =>
        /\ last.res = Ok
        /\ Complete(Data("rec"))
        /\ Len(PayloadOf(Data("rec"))) = Len(PayloadOf(Data(last.src)))
        /\ \A k \in 1..(Len(PayloadOf(Data(last.src))) \div 4) :
            LET c == PayloadOf(Data(last.src))
                o == PayloadOf(Data("rec"))
                mid == Word(c, 2 * k)
                side == SWord(c, 2 * k - 1)
            IN  /\ SWord(o, 2 * k - 1) = Clamp16(mid + side)
                /\ SWord(o, 2 * k) = Clamp16(mid - side)
                /\ (mid + side > 32767 => SWord(o, 2 * k - 1) = 32767)
                /\ (mid - side > 32767 => SWord(o, 2 * k) = 32767)

\* a decoded sample whose left sum exceeded 32767 and whose right did not
C8_Witness ==
    /\ DecodeCase /\ last.res = Ok /\ last.src = "A"
    /\ Len(PayloadOf(Data("A"))) >= 4
    /\ Word(PayloadOf(Data("A")), 2) + SWord(PayloadOf(Data("A")), 1) > 32767
    /\ InRange16(Word(PayloadOf(Data("A")), 2) - SWord(PayloadOf(Data("A")), 1))
    /\ SWord(PayloadOf(Data("rec")), 1) = 32767

\* C9: decoding what codEstereo produced from signed 16-bit samples never
\* needs the clamp.
C9_NoOverflow == RoundTripCase => NoSaturation(PayloadOf(Data("cod")))

(***************************************************************************)
(* The converters on files of every kind (Spec).  "izq" and "der" hold     *)
(* what estereo2mono wrote from "A" in modes 0 and 1.                      *)
(***************************************************************************)
SplitCase(ok(_)) ==
    /\ last.op = "estereo2mono" /\ last.canal \in {0, 1} /\ ok(Data("A"))

MergeCase(ok(_)) ==
    /\ last.op = "mono2stereo" /\ last.src = "izq" /\ last.src2 = "der"
    /\ fs["izq"].exists /\ fs["der"].exists /\ ok(Data("A"))

C2_Exact ==
    /\ last.res = Ok
    /\ Complete(Data("rec"))
    /\ PayloadOf(Data("rec")) = PayloadOf(Data("A"))
    /\ ChannelsOf(Data("rec")) = 2
    /\ RateOf(Data("rec")) = RateOf(Data("A"))
    /\ BitsOf(Data("rec")) = BitsOf(Data("A"))
    /\ DataSizeOf(Data("rec")) = DataSizeOf(Data("A"))

\* C2 as stated: for every stereo input (two channels, a whole number of
\* frames) the left-only and right-only conversions and the merge of their
\* results succeed, and the merge reproduces the payload, sample rate, bits
\* per sample and data size of the input.
C2_Original ==
    /\ SplitCase(StereoFrames) => last.res = Ok
    /\ MergeCase(StereoFrames) => C2_Exact

\* C2 (amended): the same, for stereo inputs of at least 8 bits per sample
\* whose header is consistent with its contents (data_size is the payload
\* length, and the byte rate and the total size 36 + data_size fit their
\* fields).
C2_SplitMerge ==
    /\ SplitCase(ValidStereo) => last.res = Ok
    /\ MergeCase(ValidStereo) => C2_Exact

\* a merge of the two halves of an input of two frames, the second unlike the first
C2_Witness ==
    /\ MergeCase(ValidStereo) /\ last.res = Ok
    /\ LET p == PayloadOf(Data("A"))
           n == 2 * (BitsOf(Data("A")) \div 8)
       IN  Len(p) >= 2 * n /\ SubSeq(p, 1, n) # SubSeq(p, n + 1, 2 * n)

\* C4: with a header that parses, estereo2mono rejects any channel count but
\* 2, codEstereo anything but 2 channels of 16 bits, decEstereo anything but
\* 1 channel of 32 bits; the input stream is then at the end of the header
\* and the output file is as it was.
C4_Rejects ==
    LET Rejected(e) ==
            /\ last.res = e /\ last.nread = 44 /\ fs[last.dst] = last.pre
        in == Data(last.src)
    IN  /\ (last.op = "estereo2mono" /\ Parses(in) /\ ChannelsOf(in) # 2)
              => Rejected(ErrNoEstereo)
        /\ (last.op = "codEstereo" /\ Parses(in)
              /\ (ChannelsOf(in) # 2 \/ BitsOf(in) # 16))
              => Rejected(ErrCod)
        /\ (last.op = "decEstereo" /\ fs[last.src].exists /\ Parses(in)
              /\ (ChannelsOf(in) # 1 \/ BitsOf(in) # 32))
              => Rejected(ErrDec)

\* codEstereo refused a two-channel 8-bit file that has a payload
C4_Witness ==
    /\ last.op = "codEstereo" /\ Parses(Data("A"))
    /\ ChannelsOf(Data("A")) = 2 /\ BitsOf(Data("A")) = 8
    /\ Len(PayloadOf(Data("A"))) > 0
    /\ last.res = ErrCod /\ last.nread = 44

MonoPair ==
    /\ last.op = "mono2stereo" /\ fs[last.src].exists /\ fs[last.src2].exists
    /\ Parses(Data(last.src)) /\ Parses(Data(last.src2))
    /\ ChannelsOf(Data(last.src)) = 1 /\ ChannelsOf(Data(last.src2)) = 1

\* C5: given two mono files, mono2stereo fails on the first of sample_rate,
\* bits_per_sample, data_size that differs between the headers, naming it,
\* writes nothing then, and succeeds only when the three are equal.
C5_Mismatch ==
    MonoPair =>
        LET a == Data(last.src)
            b == Data(last.src2)
        IN  /\ RateOf(a) # RateOf(b) => last.res = ErrFrec
            /\ (RateOf(a) = RateOf(b) /\ BitsOf(a) # BitsOf(b)) => last.res = ErrBits
            /\ (RateOf(a) = RateOf(b) /\ BitsOf(a) = BitsOf(b)
                  /\ DataSizeOf(a) # DataSizeOf(b)) => last.res = ErrLong
            /\ last.res \in {ErrFrec, ErrBits, ErrLong} => fs["rec"] = last.pre
            /\ last.res = Ok =>
                  (RateOf(a) = RateOf(b) /\ BitsOf(a) = BitsOf(b)
                   /\ DataSizeOf(a) = DataSizeOf(b))

\* two mono files that differ in sample rate and in bits per sample were refused
C5_Witness ==
    /\ MonoPair
    /\ RateOf(Data(last.src)) # RateOf(Data(last.src2))
    /\ BitsOf(Data(last.src)) # BitsOf(Data(last.src2))
    /\ DataSizeOf(Data(last.src)) = DataSizeOf(Data(last.src2))
    /\ last.res = ErrFrec

\* C6: a converter call that fails leaves the output file as it was, and one
\* that succeeds leaves a complete header followed by exactly data_size bytes.
C6_NoPartialWrites ==
    last.op \in {"estereo2mono", "mono2stereo", "codEstereo", "decEstereo"} =>
        IF last.res # Ok THEN fs[last.dst] = last.pre
        ELSE fs[last.dst].exists /\ Complete(Data(last.dst))

\* C7: estereo2mono with a mode outside 0..3 fails with the invalid-mode
\* error on every valid stereo input, the empty one included, and writes
\* nothing.
C7_InvalidMode ==
    (last.op = "estereo2mono" /\ last.canal \notin {0, 1, 2, 3}
       /\ ValidStereo(Data("A")))
        => (last.res = ErrCanal /\ fs[last.dst] = last.pre)

(***************************************************************************)
(* The per-sample arithmetic of estereo2mono (SpecSamples).                *)
(***************************************************************************)
SampleCase ==
    /\ last.op = "estereo2mono" /\ last.canal \in {0, 1, 2, 3}
    /\ ValidStereo(Data("A")) /\ BitsOf(Data("A")) \div 8 \in Widths

\* C10: in modes 0..3 every output sample is left, right, floor((left +
\* right) / 2) or floor((left - right) / 2) of its frame, rounded toward
\* negative infinity, and always fits the sample width, so the call never
\* fails converting it back to bytes.
C10_SelectOrCombine ==
    SampleCase =>
        LET in == PayloadOf(Data("A"))
            out == PayloadOf(Data(last.dst))
            w == BitsOf(Data("A")) \div 8
        IN  /\ last.res = Ok
            /\ Complete(Data(last.dst))
            /\ Len(out) * 2 = Len(in)
            /\ \A k \in 1..(Len(in) \div (2 * w)) :
                LET L == FromBytesSigned(SubSeq(in, 2 * w * (k - 1) + 1, 2 * w * (k - 1) + w))
                    R == FromBytesSigned(SubSeq(in, 2 * w * (k - 1) + w + 1, 2 * w * k))
                    o == FromBytesSigned(SubSeq(out, w * (k - 1) + 1, w * k))
                    ts == (o - (L \div 2)) - (R \div 2)
                    td == (o - (L \div 2)) + (R \div 2)
                IN  /\ last.canal = 0 => o = L
                    /\ last.canal = 1 => o = R
                    /\ last.canal = 2 =>
                          (2 * ts <= (L % 2) + (R % 2) /\ (L % 2) + (R % 2) <= 2 * ts + 1)
                    /\ last.canal = 3 =>
                          (2 * td <= (L % 2) - (R % 2) /\ (L % 2) - (R % 2) <= 2 * td + 1)

\* a half-sum of a frame whose sum is odd and negative, rounded down
C10_Witness ==
    /\ SampleCase /\ last.canal = 2 /\ last.res = Ok
    /\ BitsOf(Data("A")) = 16 /\ Len(PayloadOf(Data("A"))) = 4
    /\ SWord(PayloadOf(Data("A")), 1) = -1 /\ SWord(PayloadOf(Data("A")), 2) = 0
    /\ SWord(PayloadOf(Data("mono")), 1) = -1

(***************************************************************************)
(* The header codec (SpecHeader).  `wrote` holds the arguments of the last *)
(* escribir_cabecera_wave, whose bytes "hdr" holds.                        *)
(***************************************************************************)
C3_ByteRate == WideFloorDiv8(WideMul(WideMul(wrote.sample_rate, wrote.num_channels),
                                     wrote.bits_per_sample))
C3_BlockAlign == WideFloorDiv8(WideMul(WideOfInt(wrote.num_channels),
                                       wrote.bits_per_sample))

\* the values escribir_cabecera_wave derives from its arguments fit their fields
C3_DerivedFit ==
    /\ WideFits(C3_ByteRate, 4) /\ WideFits(C3_BlockAlign, 2)
    /\ WideFits(WideAdd(wrote.data_size, 36), 4)

C3_Holds ==
    /\ last.op = "escribir_cabecera_wave" => (last.res = Ok /\ Len(Data("hdr")) = 44)
    /\ last.op = "leer_cabecera_wave" =>
          /\ last.res = Ok /\ last.nread = 44
          /\ last.cab.num_channels = wrote.num_channels
          /\ WideOfBytes(last.cab.sample_rate) = wrote.sample_rate
          /\ last.cab.bits_per_sample = wrote.bits_per_sample
          /\ WideOfBytes(last.cab.data_size) = wrote.data_size
          /\ WideOfBytes(last.cab.byte_rate) = C3_ByteRate
          /\ WideOfInt(last.cab.block_align) = C3_BlockAlign

\* C3 as stated: for all arguments that fit their header fields, writing the
\* header and reading it back succeeds, consumes 44 bytes and returns the
\* arguments, with byte_rate and block_align as the formulas give them.
C3_Original == wrote.given => C3_Holds

\* C3 (amended): the same, for arguments whose derived byte_rate, block_align
\* and total size 36 + data_size fit their fields too, the divisions by 8
\* being floor divisions.
C3_HeaderFidelity == (wrote.given /\ C3_DerivedFit) => C3_Holds

\* a 12-bit mono header (block_align floor(12 / 8) = 1) was written and read back
C3_Witness ==
    /\ wrote.given /\ C3_DerivedFit /\ last.op = "leer_cabecera_wave" /\ last.res = Ok
    /\ wrote.bits_per_sample = 12 /\ wrote.num_channels = 1
    /\ last.cab.block_align = 1

====
